---------------------------- MODULE Spec2Model ----------------------------
(***************************************************************************)
(* A model of github_releases.py: the pipeline                             *)
(*   parse start date -> parse_github_url -> fetch_releases ->             *)
(*   filter_releases -> print -> save_to_file                              *)
(* and of the pure functions it is built from (extract_version, the        *)
(* packaging.version.Version parse, datetime.strptime, urlparse).          *)
(*                                                                         *)
(* Text is modelled as TLA+ strings, read character by character.          *)
(* A Python value that may be absent (None) is a record                    *)
(* [some |-> BOOLEAN, s |-> STRING]; a JSON value of a release record is a *)
(* record [kind |-> "str" | "null" | "num" | "missing", s |-> STRING].     *)
(* A calendar date is a triple <<year, month, day>>.                       *)
(***************************************************************************)
EXTENDS Integers, Sequences, FiniteSets, TLC

VARIABLES
    pc,                  \* position of the run
    repo_url,            \* args.repo_url
    start_date_str,      \* args.start_date
    output_file,         \* args.output (optional), later the name written to
    package_name,        \* args.package_name (optional)
    include_prereleases, \* args.include_prereleases
    start_date,          \* main: start_date
    owner,               \* main: owner
    repo,                \* main: repo
    page,                \* fetch_releases: page
    requests,            \* the GET requests sent so far, in order
    releases,            \* fetch_releases: releases / main: releases
    idx,                 \* filter_releases: position of the for loop
    filtered,            \* filter_releases: filtered_releases
    tag_name,            \* extract_version: argument tag_name
    version,             \* extract_version: its result
    stdout,              \* the lines printed so far
    disk,                \* the file at the output path: [exists, data]
    prior,               \* what that file was before the run
    opens,               \* number of open(output_file, 'w') calls
    log,                 \* the messages of the logging.error calls, in order
    exit_code            \* -1 while running, else the process exit status

vars == <<pc, repo_url, start_date_str, output_file, package_name,
          include_prereleases, start_date, owner, repo, page, requests,
          releases, idx, filtered, tag_name, version, stdout, disk, prior,
          opens, log, exit_code>>

----------------------------------------------------------------------------
(* Bounds of the model.                                                    *)

\* the pages with content a repository may hold
MaxPages == 2

\* the releases filter_releases is given, when run on its own
MaxReleases == 2

----------------------------------------------------------------------------
(* Characters and numbers.                                                 *)

Ch(s, i) == IF i >= 1 /\ i <= Len(s) THEN SubSeq(s, i, i) ELSE ""

Digits == "0123456789"

IsDigit(c) == \E k \in 1..10 : SubSeq(Digits, k, k) = c

DigitVal(c) == (CHOOSE k \in 1..10 : SubSeq(Digits, k, k) = c) - 1

UpperCase == "ABCDEFGHIJKLMNOPQRSTUVWXYZ"

LowerCase == "abcdefghijklmnopqrstuvwxyz"

IsLowerAlpha(c) == \E k \in 1..26 : SubSeq(LowerCase, k, k) = c

LowerCh(c) ==
    IF \E k \in 1..26 : SubSeq(UpperCase, k, k) = c
    THEN LET k == CHOOSE j \in 1..26 : SubSeq(UpperCase, j, j) = c
         IN  SubSeq(LowerCase, k, k)
    ELSE c

RECURSIVE Lower(_)
Lower(s) == IF s = "" THEN "" ELSE LowerCh(Ch(s, 1)) \o Lower(SubSeq(s, 2, Len(s)))

IsSpace(c) == c \in {" ", "\t", "\n", "\r"}

RECURSIVE LStrip(_)
LStrip(s) == IF s /= "" /\ IsSpace(Ch(s, 1)) THEN LStrip(SubSeq(s, 2, Len(s))) ELSE s

RECURSIVE RStrip(_)
RStrip(s) ==
    IF s /= "" /\ IsSpace(Ch(s, Len(s))) THEN RStrip(SubSeq(s, 1, Len(s) - 1)) ELSE s

\* str.startswith
StartsWith(s, p) == Len(s) >= Len(p) /\ SubSeq(s, 1, Len(p)) = p

\* the text at position i starts with p
At(s, i, p) == i + Len(p) - 1 <= Len(s) /\ SubSeq(s, i, i + Len(p) - 1) = p

\* the position after the longest run of digits starting at i
RECURSIVE ScanDigits(_, _)
ScanDigits(s, i) == IF IsDigit(Ch(s, i)) THEN ScanDigits(s, i + 1) ELSE i

\* int() of the digits s[i..j-1]
RECURSIVE NumVal(_, _, _)
NumVal(s, i, j) ==
    IF j <= i THEN 0 ELSE NumVal(s, i, j - 1) * 10 + DigitVal(Ch(s, j - 1))


----------------------------------------------------------------------------
(* packaging.version.Version(version_str), line 143.  The PEP 440 pattern  *)
(* is, in order: an optional "v"; an optional epoch "N!"; the release      *)
(* "N", ".N" repeated; an optional pre-release (an optional separator      *)
(* "-", "_" or ".", one of alpha a beta b preview pre c rc, an optional    *)
(* separator, an optional number); an optional post release (either "-N",  *)
(* or separator, one of post rev r, separator, number, as before); an      *)
(* optional dev release (likewise, with dev); an optional local version    *)
(* ("+", then runs of letters and digits joined by single separators).     *)
(* It is matched against the whole text, ignoring case and surrounding     *)
(* white space.  Every optional part is followed only by parts that        *)
(* cannot start with what it consumes, so the leftmost-longest reading     *)
(* below accepts exactly the texts the pattern accepts.                    *)

IsSep(c) == c \in {"-", "_", "."}

\* the first keyword of kws (tried in order) found at position i, else ""
RECURSIVE Keyword(_, _, _)
Keyword(s, i, kws) ==
    IF kws = <<>> THEN ""
    ELSE IF At(s, i, Head(kws)) THEN Head(kws)
    ELSE Keyword(s, i, Tail(kws))

PreKeywords == <<"alpha", "a", "beta", "b", "preview", "pre", "c", "rc">>

PostKeywords == <<"post", "rev", "r">>

DevKeywords == <<"dev">>

\* the release segment, a number and then "." and a number any number of
\* times, read from position i: [ok, nums, i]
ReleaseNext(s, nums, j, more) ==
    [ok |-> TRUE, nums |-> nums, i |-> j, more |-> more]

\* one number of the release from position i, and whether ".N" follows
ReleaseStep(s, i, j, nums) ==
    IF j = i THEN [ok |-> FALSE, nums |-> nums, i |-> i, more |-> FALSE]
    ELSE ReleaseNext(s, Append(nums, NumVal(s, i, j)), j,
                     Ch(s, j) = "." /\ IsDigit(Ch(s, j + 1)))

RECURSIVE ScanReleaseFrom(_, _)
ScanReleaseFrom(s, r) ==
    IF r.more THEN ScanReleaseFrom(s, ReleaseStep(s, r.i + 1, ScanDigits(s, r.i + 1), r.nums))
    ELSE r

ScanRelease(s, i, nums) == ScanReleaseFrom(s, ReleaseStep(s, i, ScanDigits(s, i), nums))

\* the number after keyword kw, which starts at j; m is the position after
\* the optional separator that follows kw
LabelledNumber(s, kw, m) ==
    [l |-> kw, n |-> NumVal(s, m, ScanDigits(s, m)), i |-> ScanDigits(s, m)]

LabelledAt(s, i, kw, k) ==
    IF kw = "" THEN [l |-> "", n |-> 0, i |-> i]
    ELSE LabelledNumber(s, kw, IF IsSep(Ch(s, k)) THEN k + 1 ELSE k)

LabelledFrom(s, i, j, kw) == LabelledAt(s, i, kw, j + Len(kw))

\* an optional part: separator (optional), keyword, separator (optional),
\* number (optional), from position i:
\* [l |-> the keyword or "", n |-> its number (0 when left out), i]
ScanLabelled(s, i, kws) ==
    LabelledFrom(s, i, IF IsSep(Ch(s, i)) THEN i + 1 ELSE i,
                 Keyword(s, IF IsSep(Ch(s, i)) THEN i + 1 ELSE i, kws))

\* the optional post release: -N, or a labelled part
ScanPost(s, i) ==
    IF Ch(s, i) = "-" /\ IsDigit(Ch(s, i + 1))
    THEN [l |-> "post", n |-> NumVal(s, i + 1, ScanDigits(s, i + 1)),
          i |-> ScanDigits(s, i + 1)]
    ELSE ScanLabelled(s, i, PostKeywords)

IsLocalCh(c) == IsDigit(c) \/ IsLowerAlpha(c)

\* the position after [a-z0-9]+([-_.][a-z0-9]+)* from i, or i when it is absent
RECURSIVE ScanLocal(_, _)
ScanLocal(s, i) ==
    IF ~IsLocalCh(Ch(s, i)) THEN i
    ELSE IF IsLocalCh(Ch(s, i + 1)) THEN ScanLocal(s, i + 1)
    ELSE IF IsSep(Ch(s, i + 1)) /\ IsLocalCh(Ch(s, i + 2)) THEN ScanLocal(s, i + 2)
    ELSE i + 1

\* packaging's normal form of the pre-release letter
PreLetter(kw) ==
    IF kw = "alpha" THEN "a"
    ELSE IF kw = "beta" THEN "b"
    ELSE IF kw \in {"c", "pre", "preview"} THEN "rc"
    ELSE kw

InvalidVersion ==
    [ok |-> FALSE, epoch |-> 0, release |-> <<>>, pre_l |-> "", pre_n |-> 0,
     post |-> -1, dev |-> -1, local |-> ""]

\* the parts read, put together; l1 is the position after the local version
VersionOf(s, epoch, rel, pre, post, dev, l1) ==
    IF ~rel.ok \/ (Ch(s, dev.i) = "+" /\ l1 = dev.i + 1) \/ l1 /= Len(s) + 1
    THEN InvalidVersion
    ELSE [ok |-> TRUE,
          epoch |-> epoch,
          release |-> rel.nums,
          pre_l |-> PreLetter(pre.l),
          pre_n |-> pre.n,
          post |-> IF post.l = "" THEN -1 ELSE post.n,
          dev |-> IF dev.l = "" THEN -1 ELSE dev.n,
          local |-> IF Ch(s, dev.i) = "+" THEN SubSeq(s, dev.i + 1, l1 - 1) ELSE ""]

VersionLocal(s, epoch, rel, pre, post, dev) ==
    VersionOf(s, epoch, rel, pre, post, dev,
              IF Ch(s, dev.i) = "+" THEN ScanLocal(s, dev.i + 1) ELSE dev.i)

VersionDev(s, epoch, rel, pre, post) ==
    VersionLocal(s, epoch, rel, pre, post, ScanLabelled(s, post.i, DevKeywords))

VersionPost(s, epoch, rel, pre) ==
    VersionDev(s, epoch, rel, pre, ScanPost(s, pre.i))

VersionPre(s, epoch, rel) ==
    VersionPost(s, epoch, rel, ScanLabelled(s, rel.i, PreKeywords))

\* the release read from i1
VersionRelease(s, epoch, i1) == VersionPre(s, epoch, ScanRelease(s, i1, <<>>))

\* the epoch "N!", when the digits s[i0..e1-1] are followed by "!"
VersionEpoch(s, i0, e1) ==
    IF e1 > i0 /\ Ch(s, e1) = "!"
    THEN VersionRelease(s, NumVal(s, i0, e1), e1 + 1)
    ELSE VersionRelease(s, 0, i0)

\* the optional "v", then the rest from i0
VersionFrom(s, i0) == VersionEpoch(s, i0, ScanDigits(s, i0))

VersionText(s) == VersionFrom(s, IF Ch(s, 1) = "v" THEN 2 ELSE 1)

ParseVersion(str) == VersionText(Lower(RStrip(LStrip(str))))

\* Version.is_prerelease, line 179: a dev or a pre-release part is present
is_prerelease(v) == v.dev /= -1 \/ v.pre_l /= ""

----------------------------------------------------------------------------
(* datetime.datetime.strptime(text, format).date(), lines 167-169 and 215, *)
(* and the text of a date, lines 200 and 222.                              *)

\* a one- or two-digit field at position i: two digits when they form a
\* number of lo2..hi2, else one digit of at least lo1: [ok, v, i]
ScanField(s, i, lo2, hi2, lo1) ==
    LET two == IsDigit(Ch(s, i)) /\ IsDigit(Ch(s, i + 1))
        v2 == IF two THEN NumVal(s, i, i + 2) ELSE 0
        one == IsDigit(Ch(s, i))
        v1 == IF one THEN NumVal(s, i, i + 1) ELSE 0
    IN  IF two /\ v2 >= lo2 /\ v2 <= hi2 THEN [ok |-> TRUE, v |-> v2, i |-> i + 2]
        ELSE IF one /\ v1 >= lo1 THEN [ok |-> TRUE, v |-> v1, i |-> i + 1]
        ELSE [ok |-> FALSE, v |-> 0, i |-> i]

\* the day directive also takes a space and one digit
ScanDay(s, i) ==
    IF Ch(s, i) = " " /\ IsDigit(Ch(s, i + 1)) /\ Ch(s, i + 1) /= "0"
    THEN [ok |-> TRUE, v |-> NumVal(s, i + 1, i + 2), i |-> i + 2]
    ELSE ScanField(s, i, 1, 31, 1)

IsLeap(y) == y % 4 = 0 /\ (y % 100 /= 0 \/ y % 400 = 0)

DaysIn(y, m) ==
    IF m = 2 THEN (IF IsLeap(y) THEN 29 ELSE 28)
    ELSE IF m \in {4, 6, 9, 11} THEN 30
    ELSE 31

NoDate == [ok |-> FALSE, date |-> <<0, 0, 0>>, i |-> 0]

YMDDay(s, y, m, d) ==
    IF d.ok THEN [ok |-> TRUE, date |-> <<y, m.v, d.v>>, i |-> d.i] ELSE NoDate

YMDMonth(s, y, m) ==
    IF m.ok /\ Ch(s, m.i) = "-" THEN YMDDay(s, y, m, ScanDay(s, m.i + 1)) ELSE NoDate

\* the directives %Y-%m-%d read from the start of s: [ok, date, i]
ScanYMD(s) ==
    IF ScanDigits(s, 1) >= 5 /\ Ch(s, 5) = "-"
    THEN YMDMonth(s, NumVal(s, 1, 5), ScanField(s, 6, 1, 12, 1))
    ELSE NoDate

\* the date() constructor accepts the values read
ValidDate(dt) == dt[1] >= 1 /\ dt[3] <= DaysIn(dt[1], dt[2])

NotParsed == [ok |-> FALSE, date |-> <<0, 0, 0>>]

DateRead(s, r) ==
    IF r.ok /\ r.i = Len(s) + 1 /\ ValidDate(r.date)
    THEN [ok |-> TRUE, date |-> r.date]
    ELSE NotParsed

\* strptime(s, '%Y-%m-%d').date(): [ok, date]; ok = FALSE is a ValueError
StrptimeDate(s) == DateRead(s, ScanYMD(s))

TimeSecond(s, r, se) ==
    IF se.ok /\ Ch(s, se.i) = "Z" /\ se.i = Len(s) /\ ValidDate(r.date) /\ se.v <= 59
    THEN [ok |-> TRUE, date |-> r.date]
    ELSE NotParsed

TimeMinute(s, r, mi) ==
    IF mi.ok /\ Ch(s, mi.i) = ":"
    THEN TimeSecond(s, r, ScanField(s, mi.i + 1, 0, 61, 0))
    ELSE NotParsed

TimeHour(s, r, h) ==
    IF h.ok /\ Ch(s, h.i) = ":"
    THEN TimeMinute(s, r, ScanField(s, h.i + 1, 0, 59, 0))
    ELSE NotParsed

TimestampRead(s, r) ==
    IF r.ok /\ Ch(s, r.i) = "T"
    THEN TimeHour(s, r, ScanField(s, r.i + 1, 0, 23, 0))
    ELSE NotParsed

\* strptime(s, '%Y-%m-%dT%H:%M:%SZ').date(): [ok, date]
StrptimeTimestamp(s) == TimestampRead(s, ScanYMD(s))

\* date < date
DateBefore(a, b) ==
    \/ a[1] < b[1]
    \/ a[1] = b[1] /\ a[2] < b[2]
    \/ a[1] = b[1] /\ a[2] = b[2] /\ a[3] < b[3]

DigitStr(k) == SubSeq(Digits, k + 1, k + 1)

\* the decimal text of n, zero-padded to at least w digits
RECURSIVE Pad(_, _)
Pad(n, w) ==
    IF n < 10 /\ w <= 1 THEN DigitStr(n)
    ELSE Pad(n \div 10, w - 1) \o DigitStr(n % 10)

\* str(date): date.isoformat()
DateStr(dt) == Pad(dt[1], 4) \o "-" \o Pad(dt[2], 2) \o "-" \o Pad(dt[3], 2)

----------------------------------------------------------------------------
(* urlparse(repo_url).path.strip('/').split('/'), lines 66-67.             *)

\* the first position >= i of s holding a character of cs, else Len(s) + 1
RECURSIVE FindAny(_, _, _)
FindAny(s, cs, i) ==
    IF i > Len(s) THEN Len(s) + 1
    ELSE IF Ch(s, i) \in cs THEN i
    ELSE FindAny(s, cs, i + 1)

IsSchemeCh(c) ==
    IsDigit(c) \/ IsLowerAlpha(LowerCh(c)) \/ c \in {"+", "-", "."}

\* the text after the scheme, when the text before the first ":" is one
AfterScheme(url) ==
    LET i == FindAny(url, {":"}, 1)
    IN  IF /\ i > 1 /\ i <= Len(url)
           /\ IsLowerAlpha(LowerCh(Ch(url, 1)))
           /\ \A k \in 1..(i - 1) : IsSchemeCh(Ch(url, k))
        THEN SubSeq(url, i + 1, Len(url))
        ELSE url

\* urlparse(url): [ok, path]; ok = FALSE is the ValueError of a netloc with
\* one bracket of an IPv6 address and not the other
UrlParse(url) ==
    LET rest == AfterScheme(url)
        hasNetloc == StartsWith(rest, "//")
        n == IF hasNetloc THEN FindAny(rest, {"/", "?", "#"}, 3) ELSE 1
        netloc == IF hasNetloc THEN SubSeq(rest, 3, n - 1) ELSE ""
        open == FindAny(netloc, {"["}, 1) <= Len(netloc)
        close == FindAny(netloc, {"]"}, 1) <= Len(netloc)
        e == FindAny(rest, {"?", "#"}, n)
    IN  IF open /= close THEN [ok |-> FALSE, path |-> ""]
        ELSE [ok |-> TRUE, path |-> SubSeq(rest, n, e - 1)]

RECURSIVE LStripSlash(_)
LStripSlash(s) == IF Ch(s, 1) = "/" THEN LStripSlash(SubSeq(s, 2, Len(s))) ELSE s

RECURSIVE RStripSlash(_)
RStripSlash(s) ==
    IF Ch(s, Len(s)) = "/" THEN RStripSlash(SubSeq(s, 1, Len(s) - 1)) ELSE s

\* str.strip('/')
StripSlash(s) == RStripSlash(LStripSlash(s))

\* str.split('/'): never empty; "" gives <<"">>
RECURSIVE SplitSlash(_)
SplitSlash(s) ==
    LET i == FindAny(s, {"/"}, 1)
    IN  IF i > Len(s) THEN <<s>>
        ELSE <<SubSeq(s, 1, i - 1)>> \o SplitSlash(SubSeq(s, i + 1, Len(s)))

\* lines 68-74
OwnerAndRepo(path_parts) ==
    IF Len(path_parts) >= 2
    THEN [ok |-> TRUE, owner |-> path_parts[1], repo |-> path_parts[2]]
    ELSE [ok |-> FALSE, owner |-> "", repo |-> ""]

PathParts(parsed_url) ==
    IF parsed_url.ok
    THEN OwnerAndRepo(SplitSlash(StripSlash(parsed_url.path)))
    ELSE [ok |-> FALSE, owner |-> "", repo |-> ""]

\* parse_github_url(repo_url): [ok, owner, repo]; ok = FALSE is sys.exit(1)
parse_github_url(url) == PathParts(UrlParse(url))

----------------------------------------------------------------------------
(* extract_version(tag_name, package_name), lines 116-147.                 *)

None == [some |-> FALSE, s |-> ""]

Some(s) == [some |-> TRUE, s |-> s]

\* the truth value of an optional text: neither None nor ""
Truthy(o) == o.some /\ o.s /= ""

Str(s) == [kind |-> "str", s |-> s]

NoVersion == [kind |-> "none", v |-> InvalidVersion]

Raised == [kind |-> "raise", v |-> InvalidVersion]

VersionResult(v) == IF v.ok THEN [kind |-> "version", v |-> v] ELSE NoVersion

\* lines 139-144
ExtractFrom(version_str) ==
    VersionResult(ParseVersion(IF StartsWith(version_str, "v")
                               THEN SubSeq(version_str, 2, Len(version_str))
                               ELSE version_str))

\* extract_version without the test of line 130: the prefix is cut off
\* whether or not the tag starts with it
extract_version_unchecked(tag, pkg) ==
    IF tag.kind /= "str" THEN Raised
    ELSE IF ~Truthy(pkg) THEN ExtractFrom(tag.s)
    ELSE ExtractFrom(SubSeq(tag.s, Len(pkg.s \o "==") + 1, Len(tag.s)))

\* [kind |-> "version", v], or "none" (return None), or "raise": an
\* exception that is not InvalidVersion leaves the function
extract_version(tag, pkg) ==
    IF tag.kind /= "str" THEN Raised
    ELSE IF ~Truthy(pkg) THEN ExtractFrom(tag.s)
    ELSE IF StartsWith(tag.s, pkg.s \o "==")
    THEN ExtractFrom(SubSeq(tag.s, Len(pkg.s \o "==") + 1, Len(tag.s)))
    ELSE NoVersion

----------------------------------------------------------------------------
(* Release records, as response.json() gives them.                         *)

Missing == [kind |-> "missing", s |-> ""]

Null == [kind |-> "null", s |-> ""]

Num == [kind |-> "num", s |-> "7"]

Release(tag, published) ==
    [obj |-> TRUE, tag_name |-> tag, published_at |-> published]

\* an element that is not a JSON object: it cannot be subscripted by a key
NotAnObject == [obj |-> FALSE, tag_name |-> Missing, published_at |-> Missing]

NoEntry == [tag |-> "", date |-> <<0, 0, 0>>]

Skipped == [kind |-> "skip", entry |-> NoEntry]

Failed == [kind |-> "error", entry |-> NoEntry]

\* lines 176-183, with the result ver of extract_version
FilterVersion(tag, date, ver, incl) ==
    IF ver.kind = "raise" THEN Failed
    ELSE IF ver.kind = "none" THEN Skipped
    ELSE IF ~incl /\ is_prerelease(ver.v) THEN Skipped
    ELSE [kind |-> "append", entry |-> [tag |-> tag.s, date |-> date]]

\* FilterDate with the start date exclusive: "<=" for "<" at line 170
FilterDateExclusive(tag, parsed, start, pkg, incl) ==
    IF ~parsed.ok \/ tag.kind = "missing" THEN Failed
    ELSE IF ~DateBefore(start, parsed.date) THEN Skipped
    ELSE FilterVersion(tag, parsed.date, extract_version(tag, pkg), incl)

\* lines 170-175, with the result parsed of strptime; the message of line
\* 171 reads release['tag_name'] too
FilterDate(tag, parsed, start, pkg, incl) ==
    IF ~parsed.ok \/ tag.kind = "missing" THEN Failed
    ELSE IF DateBefore(parsed.date, start) THEN Skipped
    ELSE FilterVersion(tag, parsed.date, extract_version(tag, pkg), incl)

\* the body of the loop of filter_releases, lines 165-185, for one release:
\* "append" the entry, "skip" (continue), or "error" (the except clause)
FilterOne(release, start, pkg, incl) ==
    IF ~release.obj \/ release.published_at.kind /= "str" THEN Failed
    ELSE FilterDate(release.tag_name, StrptimeTimestamp(release.published_at.s),
                    start, pkg, incl)

----------------------------------------------------------------------------
(* The API, as the program sees it: what one GET may answer.               *)

per_page == 100

BoundedSeq(S, n) == UNION {[1..k -> S] : k \in 0..n}

\* the release records the runs of the pipeline are fed, and the pages
\* with content that hold them
Stable == Release(Str("v1.2.0"), Str("2024-02-01T00:00:00Z"))

Beta == Release(Str("v1.3.0-beta"), Str("2024-3-1T12:30:00Z"))

\* a release that was never published: published_at is null
Draft == Release(Str("v1.4.0"), Null)

RunPages == { <<Stable>>, <<Stable, Beta>>, <<Beta, Stable>>, <<Draft, Stable>> }

Answer(kind, items) == [kind |-> kind, items |-> items]

\* answers that end the loop: an exception, or a body that is false
\* ("array" with no element, null)
EndingAnswers ==
    { Answer("transport_error", <<>>), Answer("http_error", <<>>),
      Answer("invalid_json", <<>>), Answer("number", <<>>),
      Answer("array", <<>>), Answer("null", <<>>) }

\* answers after which the next page is requested: a JSON array with
\* elements, and a JSON object with members (extend() takes its keys)
MoreAnswers ==
    { Answer("array", b) : b \in RunPages }
        \cup { Answer("object", <<NotAnObject>>) }

\* the repository holds at most MaxPages pages with content
Answers(p) == IF p <= MaxPages THEN EndingAnswers \cup MoreAnswers ELSE EndingAnswers

----------------------------------------------------------------------------
(* The run.                                                                *)

Unset == [kind |-> "unset", v |-> InvalidVersion]

NoFile == [exists |-> FALSE, data |-> ""]

\* the messages of logging.error, by the line that writes them
InvalidUrl == "Invalid GitHub repository URL."

FetchError == "Error fetching releases"

RecordError == "Error processing release"

WriteError == "Error writing to file"

Unexpected == "An unexpected error occurred"

\* logging.error(msg), then sys.exit(status)
Abort(status, msg) ==
    /\ pc' = "exit"
    /\ exit_code' = status
    /\ log' = Append(log, msg)

\* line 215; the ValueError of strptime is caught at line 231
ParseStartDate ==
    /\ pc = "parse_date"
    /\ \E r \in {StrptimeDate(start_date_str)} :
           IF r.ok
           THEN /\ start_date' = r.date
                /\ pc' = "parse_url"
                /\ UNCHANGED <<exit_code, log>>
           ELSE /\ Abort(1, Unexpected)
                /\ UNCHANGED start_date
    /\ UNCHANGED <<repo_url, start_date_str, output_file, package_name,
                   include_prereleases, owner, repo, page, requests, releases,
                   idx, filtered, tag_name, version, stdout, disk, prior, opens>>

\* line 216, parse_github_url, lines 55-77
ParseGithubUrl ==
    /\ pc = "parse_url"
    /\ \E r \in {parse_github_url(repo_url)} :
           IF r.ok
           THEN /\ owner' = r.owner
                /\ repo' = r.repo
                /\ pc' = "fetch"
                /\ UNCHANGED <<exit_code, log>>
           ELSE /\ Abort(1, IF UrlParse(repo_url).ok
                            THEN InvalidUrl
                            ELSE "Error parsing GitHub URL")
                /\ UNCHANGED <<owner, repo>>
    /\ UNCHANGED <<repo_url, start_date_str, output_file, package_name,
                   include_prereleases, start_date, page, requests, releases,
                   idx, filtered, tag_name, version, stdout, disk, prior, opens>>

\* the request of line 103, with the answer it gets
Request(p, a) == [page |-> p, per_page |-> per_page, answer |-> a]

\* the except clause an answer ends in: requests.exceptions.RequestException
\* is caught at line 110; a body that is not JSON raises a RequestException
\* or, with requests before 2.27, a ValueError caught at line 231; the
\* TypeError of extend(number) is caught at line 231
Handlers(a) ==
    IF a.kind \in {"transport_error", "http_error"} THEN {FetchError}
    ELSE IF a.kind = "invalid_json" THEN {FetchError, Unexpected}
    ELSE IF a.kind = "number" THEN {Unexpected}
    ELSE {}

\* FetchPage with an except clause that leaves the loop and returns the
\* releases of the pages before
FetchPageSalvaging ==
    /\ pc = "fetch"
    /\ \E a \in Answers(page) :
          /\ requests' = Append(requests, Request(page, a))
          /\ IF Handlers(a) /= {}
             THEN /\ \E msg \in Handlers(a) : log' = Append(log, msg)
                  /\ pc' = "filter"
                  /\ UNCHANGED <<page, releases, exit_code>>
             ELSE IF a.items = <<>>
             THEN /\ pc' = "filter"
                  /\ UNCHANGED <<page, releases, exit_code, log>>
             ELSE /\ releases' = releases \o a.items
                  /\ page' = page + 1
                  /\ UNCHANGED <<pc, exit_code, log>>
    /\ UNCHANGED <<repo_url, start_date_str, output_file, package_name,
                   include_prereleases, start_date, owner, repo, idx, filtered,
                   tag_name, version, stdout, disk, prior, opens>>

\* FetchPage with a loop that also ends at a page of fewer than per_page
\* elements
FetchPageShortStop ==
    /\ pc = "fetch"
    /\ \E a \in Answers(page) :
          /\ requests' = Append(requests, Request(page, a))
          /\ IF Handlers(a) /= {}
             THEN /\ \E msg \in Handlers(a) : Abort(1, msg)
                  /\ UNCHANGED <<page, releases>>
             ELSE IF Len(a.items) < per_page
             THEN /\ releases' = releases \o a.items
                  /\ pc' = "filter"
                  /\ UNCHANGED <<page, exit_code, log>>
             ELSE /\ releases' = releases \o a.items
                  /\ page' = page + 1
                  /\ UNCHANGED <<pc, exit_code, log>>
    /\ UNCHANGED <<repo_url, start_date_str, output_file, package_name,
                   include_prereleases, start_date, owner, repo, idx, filtered,
                   tag_name, version, stdout, disk, prior, opens>>

\* one turn of the loop of fetch_releases, lines 99-112, and its return
FetchPage ==
    /\ pc = "fetch"
    /\ \E a \in Answers(page) :
          /\ requests' = Append(requests, Request(page, a))
          /\ IF Handlers(a) /= {}
             THEN /\ \E msg \in Handlers(a) : Abort(1, msg)
                  /\ UNCHANGED <<page, releases>>
             ELSE IF a.items = <<>>
             THEN /\ pc' = "filter"
                  /\ UNCHANGED <<page, releases, exit_code, log>>
             ELSE /\ releases' = releases \o a.items
                  /\ page' = page + 1
                  /\ UNCHANGED <<pc, exit_code, log>>
    /\ UNCHANGED <<repo_url, start_date_str, output_file, package_name,
                   include_prereleases, start_date, owner, repo, idx, filtered,
                   tag_name, version, stdout, disk, prior, opens>>

\* FilterStep with an except clause that ends the run instead of going on
\* to the next release
FilterStepAborting ==
    /\ pc = "filter"
    /\ idx <= Len(releases)
    /\ \E r \in {FilterOne(releases[idx], start_date, package_name,
                          include_prereleases)} :
           /\ filtered' = IF r.kind = "append"
                          THEN Append(filtered, r.entry)
                          ELSE filtered
           /\ IF r.kind = "error"
              THEN Abort(1, RecordError)
              ELSE UNCHANGED <<pc, log, exit_code>>
    /\ idx' = idx + 1
    /\ UNCHANGED <<repo_url, start_date_str, output_file, package_name,
                   include_prereleases, start_date, owner, repo, page, requests,
                   releases, tag_name, version, stdout, disk, prior, opens>>

\* one turn of the loop of filter_releases, lines 164-185
FilterStep ==
    /\ pc = "filter"
    /\ idx <= Len(releases)
    /\ \E r \in {FilterOne(releases[idx], start_date, package_name,
                          include_prereleases)} :
           /\ filtered' = IF r.kind = "append"
                          THEN Append(filtered, r.entry)
                          ELSE filtered
           /\ log' = IF r.kind = "error" THEN Append(log, RecordError) ELSE log
    /\ idx' = idx + 1
    /\ UNCHANGED <<pc, repo_url, start_date_str, output_file, package_name,
                   include_prereleases, start_date, owner, repo, page, requests,
                   releases, tag_name, version, stdout, disk, prior, opens,
                   exit_code>>

\* line 186
FilterReturn ==
    /\ pc = "filter"
    /\ idx > Len(releases)
    /\ pc' = "print"
    /\ UNCHANGED <<repo_url, start_date_str, output_file, package_name,
                   include_prereleases, start_date, owner, repo, page, requests,
                   releases, idx, filtered, tag_name, version, stdout, disk,
                   prior, opens, log, exit_code>>

\* the line written for one entry, lines 200 and 222
Line(e) == e.tag \o ", " \o DateStr(e.date) \o "\n"

\* the lines of the first k entries
RECURSIVE Lines(_, _)
Lines(entries, k) ==
    IF k = 0 THEN "" ELSE Lines(entries, k - 1) \o Line(entries[k])

\* lines 224-228
DefaultName ==
    IF Truthy(package_name)
    THEN owner \o "_" \o repo \o "_" \o package_name.s \o "_releases.txt"
    ELSE owner \o "_" \o repo \o "_releases.txt"

\* lines 221-229: print every entry, then settle the output name; a print
\* that raises (a closed pipe) after k lines is caught at line 231
PrintEntries ==
    /\ pc = "print"
    /\ \E k \in 0..Len(filtered) :
          /\ stdout' = stdout \o Lines(filtered, k)
          /\ IF k = Len(filtered)
             THEN /\ output_file' = IF Truthy(output_file)
                                    THEN output_file
                                    ELSE Some(DefaultName)
                  /\ pc' = "save"
                  /\ UNCHANGED <<exit_code, log>>
             ELSE /\ Abort(1, Unexpected)
                  /\ UNCHANGED output_file
    /\ UNCHANGED <<repo_url, start_date_str, package_name, include_prereleases,
                   start_date, owner, repo, page, requests, releases, idx,
                   filtered, tag_name, version, disk, prior, opens>>

\* save_to_file opening the file with mode 'a': the lines are added to what
\* the file holds
save_to_file_appending ==
    /\ pc = "save"
    /\ opens' = opens + 1
    /\ \/ /\ Abort(1, WriteError)
          /\ UNCHANGED disk
       \/ \E k \in 0..Len(filtered) :
             /\ disk' = [exists |-> TRUE, data |-> disk.data \o Lines(filtered, k)]
             /\ IF k = Len(filtered)
                THEN /\ pc' = "done"
                     /\ exit_code' = 0
                     /\ UNCHANGED log
                ELSE Abort(1, WriteError)
    /\ UNCHANGED <<repo_url, start_date_str, output_file, package_name,
                   include_prereleases, start_date, owner, repo, page, requests,
                   releases, idx, filtered, tag_name, version, stdout, prior>>

\* save_to_file without the sys.exit(1) of line 204: the error is logged and
\* main returns
save_to_file_swallowing ==
    /\ pc = "save"
    /\ opens' = opens + 1
    /\ pc' = "done"
    /\ exit_code' = 0
    /\ \/ /\ log' = Append(log, WriteError)
          /\ UNCHANGED disk
       \/ \E k \in 0..Len(filtered) :
             /\ disk' = [exists |-> TRUE, data |-> Lines(filtered, k)]
             /\ log' = IF k = Len(filtered) THEN log ELSE Append(log, WriteError)
    /\ UNCHANGED <<repo_url, start_date_str, output_file, package_name,
                   include_prereleases, start_date, owner, repo, page, requests,
                   releases, idx, filtered, tag_name, version, stdout, prior>>

\* save_to_file, lines 189-204, and the return of main: open() may fail,
\* and so may a write, after k lines
save_to_file ==
    /\ pc = "save"
    /\ opens' = opens + 1
    /\ \/ /\ Abort(1, WriteError)
          /\ UNCHANGED disk
       \/ \E k \in 0..Len(filtered) :
             /\ disk' = [exists |-> TRUE, data |-> Lines(filtered, k)]
             /\ IF k = Len(filtered)
                THEN /\ pc' = "done"
                     /\ exit_code' = 0
                     /\ UNCHANGED log
                ELSE Abort(1, WriteError)
    /\ UNCHANGED <<repo_url, start_date_str, output_file, package_name,
                   include_prereleases, start_date, owner, repo, page, requests,
                   releases, idx, filtered, tag_name, version, stdout, prior>>

\* a call of extract_version on its own
ExtractVersion ==
    /\ pc = "extract"
    /\ version' = extract_version(tag_name, package_name)
    /\ pc' = "extracted"
    /\ UNCHANGED <<repo_url, start_date_str, output_file, package_name,
                   include_prereleases, start_date, owner, repo, page, requests,
                   releases, idx, filtered, tag_name, stdout, disk, prior,
                   opens, log, exit_code>>

----------------------------------------------------------------------------
(* Specifications.                                                         *)

\* what every run starts with
Fresh ==
    /\ owner = ""
    /\ repo = ""
    /\ page = 1
    /\ requests = <<>>
    /\ idx = 1
    /\ filtered = <<>>
    /\ version = Unset
    /\ stdout = ""
    /\ opens = 0
    /\ log = <<>>
    /\ exit_code = -1

RunUrls == {"https://github.com/acme/widget", "https://github.com/acme"}

RunDates == {"2024-01-01", "01/01/2024"}

OldFile == [exists |-> TRUE, data |-> "old, 2020-01-01\n"]

\* a run of main, after parse_arguments
Init ==
    /\ pc = "parse_date"
    /\ repo_url \in RunUrls
    /\ start_date_str \in RunDates
    /\ output_file \in {None, Some("out.txt")}
    /\ package_name \in {None, Some("widget")}
    /\ include_prereleases \in BOOLEAN
    /\ start_date = <<0, 0, 0>>
    /\ releases = <<>>
    /\ tag_name = Missing
    /\ prior \in {NoFile, OldFile}
    /\ disk = prior
    /\ Fresh

Next ==
    \/ ParseStartDate
    \/ ParseGithubUrl
    \/ FetchPage
    \/ FilterStep
    \/ FilterReturn
    \/ PrintEntries
    \/ save_to_file

Spec == Init /\ [][Next]_vars

(* filter_releases on its own: the releases, the start date, the package   *)
(* name and the flag are drawn from the sets below.                        *)

GoodStamp == Str("2024-02-01T00:00:00Z")

FilterTags ==
    { "v1.2.0", "v1.3.0-beta", "1.0.0-1", "widget==1.0.0",
      "widget==v2.0.0-rc2", "nightly" }

FilterStamps ==
    { Str("2023-12-31T23:59:59Z"), Str("2024-01-01T23:59:59Z"),
      Str("2024-2-1T0:0:0Z"), Str("2024-02-01 00:00:00Z"),
      Missing, Null, Num }

FilterRecords ==
    { Release(Str(t), GoodStamp) : t \in FilterTags }
        \cup { Release(Str("v1.2.0"), p) : p \in FilterStamps }
        \cup { Release(t, GoodStamp) : t \in {Missing, Null, Num} }
        \cup { Release(Missing, Str("2023-12-31T23:59:59Z")), NotAnObject }

InitFilter ==
    /\ pc = "filter"
    /\ repo_url = "https://github.com/acme/widget"
    /\ start_date_str = "2024-01-01"
    /\ output_file = None
    /\ package_name \in {None, Some("widget")}
    /\ include_prereleases \in BOOLEAN
    /\ start_date = <<2024, 1, 1>>
    /\ releases \in BoundedSeq(FilterRecords, MaxReleases)
    /\ tag_name = Missing
    /\ prior = NoFile
    /\ disk = prior
    /\ Fresh

NextFilter ==
    \/ FilterStep
    \/ FilterReturn

SpecFilter == InitFilter /\ [][NextFilter]_vars

(* extract_version on its own.                                             *)

ExtractTags ==
    { "v1.2.0", "1.2.0", "vv1.2.0", "v1.3.0-beta", "1.0.0-1", "nightly", "",
      "widget==1.0.0", "widget==v1.0.0", "widget==v2.10.3", "widget==vv1.0.0",
      "widget==v2.0.0-rc2", "widget==latest", "widget=1.0.0", "widget",
      "other==1.0.0", "gadget==1.0.0", "==1.0.0", "Widget==1.0.0" }

ExtractNames == {None, Some(""), Some("widget"), Some("other")}

InitExtract ==
    /\ pc = "extract"
    /\ repo_url = ""
    /\ start_date_str = ""
    /\ output_file = None
    /\ package_name \in ExtractNames
    /\ include_prereleases = FALSE
    /\ start_date = <<0, 0, 0>>
    /\ releases = <<>>
    /\ tag_name \in {Str(t) : t \in ExtractTags} \cup {Null, Num}
    /\ prior = NoFile
    /\ disk = prior
    /\ Fresh

NextExtract == ExtractVersion

SpecExtract == InitExtract /\ [][NextExtract]_vars

(* parse_github_url on its own.                                            *)

UrlPrefixes ==
    { "https://github.com", "http://github.com", "https://github.com:443",
      "HTTPS://user@github.com", "http://[::1", "" }

UrlPaths ==
    { "", "/", "/acme", "/acme/", "/acme//", "/acme/widget", "/acme/widget/",
      "/acme//widget", "//acme/widget", "/acme/widget//", "/acme/widget/tree/main",
      "/acme/widget.git?tab=readme#top", "/acme?tab=repositories/x" }

InitUrl ==
    /\ pc = "parse_url"
    /\ repo_url \in {p \o q : p \in UrlPrefixes, q \in UrlPaths}
    /\ start_date_str = "2024-01-01"
    /\ output_file = None
    /\ package_name = None
    /\ include_prereleases = FALSE
    /\ start_date = <<2024, 1, 1>>
    /\ releases = <<>>
    /\ tag_name = Missing
    /\ prior = NoFile
    /\ disk = prior
    /\ Fresh

NextUrl == ParseGithubUrl

SpecUrl == InitUrl /\ [][NextUrl]_vars

----------------------------------------------------------------------------
(* Properties of filter_releases, checked under SpecFilter.                *)

\* the calendar date of published_at, when the release has one
Published(r) ==
    IF r.obj /\ r.published_at.kind = "str"
    THEN StrptimeTimestamp(r.published_at.s)
    ELSE NotParsed

\* the three conditions of a surviving release
Survives(r) ==
    /\ Published(r).ok
    /\ ~DateBefore(Published(r).date, start_date)
    /\ \E ver \in {extract_version(r.tag_name, package_name)} :
          /\ ver.kind = "version"
          /\ ~is_prerelease(ver.v) \/ include_prereleases

\* the (tag_name, date) pairs of the surviving releases of rs, in order
RECURSIVE Surviving(_)
Surviving(rs) ==
    IF rs = <<>> THEN <<>>
    ELSE (IF Survives(Head(rs))
          THEN <<[tag |-> Head(rs).tag_name.s, date |-> Published(Head(rs)).date]>>
          ELSE <<>>) \o Surviving(Tail(rs))

\* C1: filter_releases returns exactly the subsequence, in the original
\* order, of the releases that are dated on or after start_date, whose tag
\* yields a version, and that are no prerelease unless include_prereleases
\* is set, each as the pair (tag_name, date); after every turn of the loop
\* the result so far is that subsequence of the releases seen so far, and no
\* entry is dated before start_date.
C1_FilterKeepsExactlyTheSurvivors ==
    pc \in {"filter", "print"} =>
        /\ filtered = Surviving(SubSeq(releases, 1, idx - 1))
        /\ pc = "print" => idx = Len(releases) + 1
        /\ \A i \in 1..Len(filtered) : ~DateBefore(filtered[i].date, start_date)

\* a release of the day before the start date, with a valid tag, is dropped,
\* and one of the start date itself is kept
C1_Witness ==
    /\ pc = "print"
    /\ releases = <<Release(Str("v1.2.0"), Str("2023-12-31T23:59:59Z")),
                    Release(Str("v1.2.0"), Str("2024-01-01T23:59:59Z"))>>
    /\ filtered = <<[tag |-> "v1.2.0", date |-> <<2024, 1, 1>>]>>

WithoutV(t) == IF StartsWith(t, "v") THEN SubSeq(t, 2, Len(t)) ELSE t

\* the version text of a tag: the tag without the package prefix, when a
\* package name is given, and without one leading "v"
VersionPart(tag) ==
    WithoutV(IF Truthy(package_name) /\ StartsWith(tag, package_name.s \o "==")
             THEN SubSeq(tag, Len(package_name.s) + 3, Len(tag))
             ELSE tag)

\* semantic versioning: MAJOR.MINOR.PATCH, and nothing else
IsPlainCore(t) ==
    \E r \in {ScanRelease(t, 1, <<>>)} : r.ok /\ Len(r.nums) = 3 /\ r.i = Len(t) + 1

\* semantic versioning: MAJOR.MINOR.PATCH, "-", and a pre-release segment
HasPreSegment(t) ==
    \E r \in {ScanRelease(t, 1, <<>>)} :
        r.ok /\ Len(r.nums) = 3 /\ Ch(t, r.i) = "-" /\ r.i < Len(t)

\* C2: prerelease classification follows semantic versioning: a version with
\* a pre-release segment after MAJOR.MINOR.PATCH is a prerelease and one
\* without is a full release; so, when include_prereleases is false, no
\* release whose tag carries a pre-release segment is in the result, and
\* every plain MAJOR.MINOR.PATCH release on or after the start date is.
C2_SemverPrereleases ==
    pc = "print" =>
        /\ \A i \in 1..Len(releases) :
              \E r \in {releases[i]} :
                 (r.tag_name.kind = "str"
                    /\ extract_version(r.tag_name, package_name).kind = "version")
                 => (is_prerelease(extract_version(r.tag_name, package_name).v)
                       <=> HasPreSegment(VersionPart(r.tag_name.s)))
        /\ ~include_prereleases =>
              \A i \in 1..Len(filtered) : ~HasPreSegment(VersionPart(filtered[i].tag))
        /\ \A i \in 1..Len(releases) :
              \E r \in {releases[i]} :
                 (/\ r.tag_name.kind = "str"
                  /\ ~Truthy(package_name) \/ StartsWith(r.tag_name.s, package_name.s \o "==")
                  /\ IsPlainCore(VersionPart(r.tag_name.s))
                  /\ Published(r).ok
                  /\ ~DateBefore(Published(r).date, start_date))
                 => \E j \in 1..Len(filtered) : filtered[j].tag = r.tag_name.s

\* a release the loop cannot process: published_at missing, null or not in
\* the form YYYY-MM-DDTHH:MM:SSZ, tag_name missing or not a string, or the
\* release no JSON object at all
Broken(r) ==
    \/ ~Published(r).ok
    \/ r.tag_name.kind /= "str"

\* C10: a release whose processing raises is skipped on its own: it adds no
\* entry, the entries appended before it stay, the loop goes on to the next
\* release, and the function returns normally, having seen every release,
\* without ending the process.
C10_BrokenRecordsAreSkipped ==
    /\ [][(pc = "filter" /\ idx <= Len(releases) /\ Broken(releases[idx]))
            => /\ filtered' = filtered
               /\ idx' = idx + 1
               /\ releases' = releases
               /\ pc' = "filter"
               /\ exit_code' = -1]_vars
    /\ [](pc = "print" => idx = Len(releases) + 1 /\ exit_code = -1)
    /\ []((pc = "filter" /\ idx > Len(releases)) => ENABLED FilterReturn)

\* a broken release, then a good one: the good one is in the result
C10_Witness ==
    /\ pc = "print"
    /\ Len(releases) = 2
    /\ releases[1].obj /\ releases[1].published_at = Null
    /\ filtered = <<[tag |-> "v1.2.0", date |-> <<2024, 2, 1>>]>>
    /\ log = <<RecordError>>

----------------------------------------------------------------------------
(* Properties of extract_version, checked under SpecExtract.               *)

\* the text X.Y.Z
Dotted(x, y, z) == Pad(x, 1) \o "." \o Pad(y, 1) \o "." \o Pad(z, 1)

\* the version X.Y.Z and nothing more
IsVersion(ver, x, y, z) ==
    /\ ver.kind = "version"
    /\ ver.v.release = <<x, y, z>>
    /\ ver.v.epoch = 0 /\ ver.v.pre_l = "" /\ ver.v.post = -1 /\ ver.v.dev = -1
    /\ ver.v.local = ""

\* what is said of extract_version, where given tells whether a package
\* name counts as supplied: the tags pkg==vX.Y.Z and pkg==X.Y.Z yield
\* X.Y.Z, a tag without the prefix pkg== yields no version and no error,
\* and without a package name the whole tag, less one leading v, is read
ExtractsTheVersion(given) ==
    /\ given =>
          /\ \A x, y, z \in 0..10 : \A v \in {"", "v"} :
                tag_name = Str(package_name.s \o "==" \o v \o Dotted(x, y, z))
                    => IsVersion(version, x, y, z)
          /\ (tag_name.kind = "str" /\ ~StartsWith(tag_name.s, package_name.s \o "=="))
                => version.kind = "none"
    /\ ~given =>
          /\ \A x, y, z \in 0..10 : \A v \in {"", "v"} :
                tag_name = Str(v \o Dotted(x, y, z)) => IsVersion(version, x, y, z)
          /\ tag_name = Str("widget==1.0.0") => version.kind = "none"
          /\ version = extract_version(tag_name, None)

\* C3, as amended: with a package name pkg that is not empty, the tags
\* pkg==vX.Y.Z and pkg==X.Y.Z yield the version X.Y.Z, and a tag that does
\* not begin with pkg== yields no version, without an error; with no
\* package name, or an empty one, the whole tag, less one leading v, is
\* read, so that widget==1.0.0 yields no version.
C3_PrefixThenVersion ==
    pc = "extracted" => ExtractsTheVersion(Truthy(package_name))

\* C3 as stated: the same, for every package name supplied, the empty one
\* included.
C3_AsStated ==
    pc = "extracted" => ExtractsTheVersion(package_name.some)

\* pkg==vX.Y.Z read with the package name pkg, and a tag of another
\* package refused
C3_Witness ==
    /\ pc = "extracted"
    /\ package_name = Some("widget")
    /\ \/ tag_name = Str("widget==v2.10.3") /\ version.v.release = <<2, 10, 3>>
       \/ tag_name = Str("gadget==1.0.0") /\ version.kind = "none"

----------------------------------------------------------------------------
(* Properties of parse_github_url, checked under SpecUrl.                  *)

RECURSIVE NonEmpty(_)
NonEmpty(parts) ==
    IF parts = <<>> THEN <<>>
    ELSE (IF Head(parts) = "" THEN <<>> ELSE <<Head(parts)>>) \o NonEmpty(Tail(parts))

\* the segments of the path of the URL that are not empty
Segments(url) == NonEmpty(SplitSlash(UrlParse(url).path))

\* C6: parse_github_url returns the first two non-empty segments of the
\* path of the URL as owner and repository, whenever the path has two, and
\* ends the program when it has fewer; it never returns an empty owner or
\* repository.
C6_FirstTwoSegments ==
    pc /= "parse_url" =>
        IF UrlParse(repo_url).ok /\ Len(Segments(repo_url)) >= 2
        THEN /\ pc = "fetch"
             /\ owner = Segments(repo_url)[1]
             /\ repo = Segments(repo_url)[2]
             /\ owner /= "" /\ repo /= ""
        ELSE pc = "exit" /\ exit_code /= 0

----------------------------------------------------------------------------
(* Properties of a run, checked under Spec.                                *)

Last(q) == q[Len(q)]

Front(q) == SubSeq(q, 1, Len(q) - 1)

\* the request failed: an exception left the turn of the loop
Raises(a) == a.kind \in {"transport_error", "http_error", "invalid_json", "number"}

\* the page holds zero records
Empty(a) == ~Raises(a) /\ a.items = <<>>

DateOk == StrptimeDate(start_date_str).ok

UrlOk == parse_github_url(repo_url).ok

\* a page fetch failed
FetchFailed == requests /= <<>> /\ Raises(Last(requests).answer)

\* every page fetch succeeded, up to the empty page
FetchedAll ==
    /\ requests /= <<>>
    /\ Empty(Last(requests).answer)
    /\ \A i \in 1..Len(requests) : ~Raises(requests[i].answer)

\* answers fetch_releases is said to fail on: a transport error, a status
\* that is no success, a body that is no JSON array of release objects
MustFail(a) ==
    a.kind \in {"transport_error", "http_error", "invalid_json", "object",
                "null", "number"}

\* C4: fetch_releases ends the process with a non-zero status on a transport
\* error, a non-success status and a malformed body, on whichever page: the
\* request is not sent again, no further page is requested, and the records
\* of the pages before are not returned.
C4_FetchFailsOnEveryBadAnswer ==
    \A i \in 1..Len(requests) :
        MustFail(requests[i].answer) =>
            /\ i = Len(requests)
            /\ pc = "exit"
            /\ exit_code \notin {-1, 0}
            /\ idx = 1 /\ filtered = <<>> /\ stdout = "" /\ opens = 0

\* C5: the output file is opened for writing at most once, and only after
\* the start date and the URL were parsed, every page was fetched and the
\* filter has seen every release; when the start date is malformed, the URL
\* invalid or a page fetch fails, the run ends and the file is as it was.
C5_FileOpenedOnceAtTheEnd ==
    /\ opens <= 1
    /\ opens = 1 =>
          /\ DateOk /\ UrlOk /\ FetchedAll
          /\ idx = Len(releases) + 1
          /\ pc \in {"done", "exit"}
    /\ opens = 0 => disk = prior
    /\ ~DateOk => pc \in {"parse_date", "exit"} /\ opens = 0 /\ disk = prior
    /\ ~UrlOk => pc \in {"parse_date", "parse_url", "exit"} /\ opens = 0 /\ disk = prior
    /\ FetchFailed => pc = "exit" /\ opens = 0 /\ disk = prior

\* a file that was there is written after three requests
C5_Witness ==
    /\ pc = "done"
    /\ opens = 1
    /\ prior = OldFile
    /\ disk /= prior
    /\ Len(requests) = 3

\* the file write succeeded
WriteOk == opens = 1 /\ (log = <<>> \/ Last(log) /= WriteError)

\* C7: a run ends with status 0 exactly when the date and the URL were
\* parsed, every page fetch succeeded and the file was written; a failure
\* of any stage is logged, ends the run with a non-zero status, and no later
\* stage runs; errors of single records do not change the status.
C7_ExitStatus ==
    /\ exit_code = -1 <=> pc \notin {"done", "exit"}
    /\ pc \in {"done", "exit"} =>
          (exit_code = 0 <=> (DateOk /\ UrlOk /\ FetchedAll /\ WriteOk))
    /\ exit_code \notin {-1, 0} =>
          /\ log /= <<>>
          /\ Last(log) \in {Unexpected, InvalidUrl, "Error parsing GitHub URL",
                            FetchError, WriteError}
          /\ ~DateOk => owner = "" /\ repo = ""
          /\ (~DateOk \/ ~UrlOk) => requests = <<>> /\ releases = <<>>
          /\ (~DateOk \/ ~UrlOk \/ FetchFailed) =>
                idx = 1 /\ filtered = <<>> /\ stdout = "" /\ opens = 0
          /\ opens = 0 => disk = prior

\* a run that logged the error of a record of a well-formed page and ended
\* with status 0
C7_Witness ==
    /\ pc = "done"
    /\ exit_code = 0
    /\ \A i \in 1..Len(requests) : requests[i].answer.kind = "array"
    /\ \E i \in 1..Len(log) : log[i] = RecordError
    /\ filtered /= <<>>

\* the text of the entries: a line "<tag>, <date>" for each, in order
RECURSIVE Rendered(_)
Rendered(entries) ==
    IF entries = <<>> THEN ""
    ELSE Rendered(Front(entries)) \o Last(entries).tag \o ", "
             \o DateStr(Last(entries).date) \o "\n"

\* a text of the form YYYY-MM-DD
IsIsoDate(t) ==
    /\ Len(t) = 10
    /\ Ch(t, 5) = "-" /\ Ch(t, 8) = "-"
    /\ \A i \in {1, 2, 3, 4, 6, 7, 9, 10} : IsDigit(Ch(t, i))

\* C8: after a run that ended with status 0 the output file holds one line
\* "<tag>, <YYYY-MM-DD>" for each filtered entry, in order, and no more,
\* whatever it held before; with no release at all the file is there and is
\* empty.
C8_FileHoldsTheEntries ==
    exit_code = 0 =>
        /\ disk.exists
        /\ disk.data = Rendered(filtered)
        /\ \A i \in 1..Len(filtered) :
              /\ IsIsoDate(DateStr(filtered[i].date))
              /\ StrptimeDate(DateStr(filtered[i].date)).date = filtered[i].date
        /\ releases = <<>> => disk.data = ""

\* two entries written over a file that was there
C8_Witness ==
    /\ exit_code = 0
    /\ prior = OldFile
    /\ disk.data = "v1.2.0, 2024-02-01\nv1.3.0-beta, 2024-03-01\n"

\* the records of the answers, in order
RECURSIVE Gathered(_)
Gathered(rq) ==
    IF rq = <<>> THEN <<>> ELSE Gathered(Front(rq)) \o Last(rq).answer.items

\* C9: fetch_releases requests the pages 1, 2, 3, ... in order, each with
\* per_page=100, requests no page after the first that is empty or fails,
\* leaves the loop exactly then (a short page that is not empty does not
\* end it), and returns the records of the pages before the empty one, in
\* page order and in the order within each page.
C9_PagesInOrderUntilEmpty ==
    /\ \A i \in 1..Len(requests) :
          /\ requests[i].page = i
          /\ requests[i].per_page = 100
          /\ i < Len(requests) =>
                ~Empty(requests[i].answer) /\ ~Raises(requests[i].answer)
    /\ pc = "fetch" =>
          /\ page = Len(requests) + 1
          /\ requests /= <<>> =>
                ~Empty(Last(requests).answer) /\ ~Raises(Last(requests).answer)
    /\ (pc \notin {"parse_date", "parse_url", "fetch"} /\ requests /= <<>>) =>
          Empty(Last(requests).answer) \/ Raises(Last(requests).answer)
    /\ (requests /= <<>> /\ Empty(Last(requests).answer)) =>
          /\ pc \notin {"parse_date", "parse_url", "fetch"}
          /\ releases = Gathered(Front(requests))
    /\ releases = Gathered(requests)

\* a short page, a second page, and the empty page that ends the loop
C9_Witness ==
    /\ pc = "filter"
    /\ Len(requests) = 3
    /\ requests[1].answer.items = <<Stable>>
    /\ requests[2].answer.items = <<Beta, Stable>>
    /\ releases = <<Stable, Beta, Stable>>
=============================================================================
